---- MODULE Spec2Model ----
(***************************************************************************)
(* Model of cmd/run.go (runRunCmd): the service supervisor that starts the *)
(* optional embedded node, the HTTP server and its shutdown task under one *)
(* errgroup, with a signal watcher cancelling the root context.            *)
(***************************************************************************)
EXTENDS Integers, FiniteSets, Sequences, TLC

\* ---------------------------------------------------------------- bounds
\* connections the HTTP server accepts over a run
MaxConns == 2
\* termination signals the operating system delivers over a run
MaxSignals == 2

Conns == 1..MaxConns
Tasks == {"geth", "serve", "shutdown"}

\* error values
Nil == "nil"
ErrConfig == "unable to load configuration"
ErrAsserter == "could not initialize server asserter"
ErrClient == "cannot initialize ethereum client"
ErrGeth == "geth exited"
ErrBind == "listen failed"
ErrAccept == "accept failed"
ErrServerClosed == "http: Server closed"
Canceled == "context canceled"
Halted == "rosetta-ethereum halted"
Unset == "unset"

VARIABLES
  pc,             \* position of runRunCmd
  cfgMode,        \* cfg.Mode
  cfgRemoteGeth,  \* cfg.RemoteGeth
  sigCount,       \* termination signals delivered to the process
  watcher,        \* position of the goroutine started by handleSignals
  SignalReceived, \* the package-level flag
  rootDone,       \* ctx of context.WithCancel is cancelled
  gCreated,       \* errgroup.WithContext has run
  ctxDone,        \* ctx of errgroup.WithContext is cancelled
  ctxVar,         \* the context the Go variable ctx is bound to
  groupCancel,    \* the group has called its own cancel function
  task,           \* position of each goroutine started with g.Go
  ret,            \* value returned by each task function
  gErr,           \* g.err, written once under errOnce
  joinErr,        \* err assigned from g.Wait()
  sigRead,        \* value of SignalReceived seen by line 131, as a string
  flagReads,      \* number of reads of SignalReceived by runRunCmd
  outcome,        \* error returned by runRunCmd
  client,         \* the *optimism.Client: "nil", "open", "closed"
  closeCount,     \* calls of client.Close()
  inShutdown,     \* http.Server.inShutdown
  listener,       \* the server's listener: "none", "open", "closed"
  tracked,        \* listener registered with the server (trackListener)
  conn,           \* state of each connection
  retAfterDone,   \* history: ctx was cancelled when the task function returned
  errNoSig,       \* history: a task returned an error before any signal
  sigAtRunning,   \* history: the watcher took the signal while runRunCmd was in g.Wait
  cleanSignal,    \* history: the watcher took the signal before any task failure
  sigEarly,       \* history: the watcher took the signal before runRunCmd reached g.Wait
  firstErr,       \* history: the error that first passed errOnce
  network,        \* the argument of getSupportedTokens (cfg.Network.Network)
  built,          \* getSupportedTokens has returned
  tokens,         \* the map returned by getSupportedTokens
  lookupAddr,     \* an address looked up in the map
  lookupRes       \* the value the lookup gave

supVars == <<pc, cfgMode, cfgRemoteGeth, joinErr, sigRead, flagReads, outcome>>
sigVars == <<sigCount, watcher, SignalReceived>>
ctxVars == <<rootDone, gCreated, ctxDone, ctxVar, groupCancel>>
grpVars == <<task, ret, gErr>>
cliVars == <<client, closeCount>>
srvVars == <<inShutdown, listener, tracked, conn>>
histVars == <<retAfterDone, errNoSig, sigAtRunning, cleanSignal, sigEarly, firstErr>>
tokVars == <<network, built, tokens, lookupAddr, lookupRes>>
vars == <<supVars, sigVars, ctxVars, grpVars, cliVars, srvVars, histVars, tokVars>>

\* ------------------------------------------------------- token table
\* the network names of package optimism
MainnetNetwork == "Mainnet"
TestnetNetwork == "Goerli"

\* line 142-147 and 151-156: the contract addresses
OP == "0x4200000000000000000000000000000000000042"
DAI == "0xda10009cbd5d07dd0cecc66161fc93d7c9000da1"
MainnetSNX == "0x8700daec35af8ff88c16bdf0418774cb3d7599b4"
MainnetUSDT == "0x94b008aa00579c1307b0ef2c499ad98a8ce58e58"
MainnetWBTC == "0x68f180fcce6836688e9084f035309e29bf0a2095"
MainnetUSDC == "0x7f5c764cbc14f9669b88837ca1490cca17c31607"
TestnetSNX == "0x2e5ed97596a8368eb9e44b1f3f25b2e813845303"
TestnetUSDT == "0x853eb4ba5d0ba2b77a0a5329fd2110d5ce149ece"
TestnetWBTC == "0xe0a592353e81a94db6e3226fd4a99f881751776a"
TestnetUSDC == "0x7e07e15d2a87a24492740d16f5bdf58c16db0c4e"

\* an empty map[string]bool
NoTokens == [a \in {} |-> TRUE]

\* a variant of getSupportedTokens whose default case returns an empty map
getSupportedTokens_EmptyDefault(n) ==
  CASE n = MainnetNetwork ->
         [a \in {OP, DAI, MainnetSNX, MainnetUSDT, MainnetWBTC, MainnetUSDC} |-> TRUE]
    [] n = TestnetNetwork ->
         [a \in {OP, DAI, TestnetSNX, TestnetUSDT, TestnetWBTC, TestnetUSDC} |-> TRUE]
    [] OTHER -> NoTokens

\* line 138-163: getSupportedTokens
getSupportedTokens(n) ==
  CASE n = MainnetNetwork ->
         [a \in {OP, DAI, MainnetSNX, MainnetUSDT, MainnetWBTC, MainnetUSDC} |-> TRUE]
    [] n = TestnetNetwork ->
         [a \in {OP, DAI, TestnetSNX, TestnetUSDT, TestnetWBTC, TestnetUSDC} |-> TRUE]
    [] OTHER -> [a \in {OP} |-> TRUE]

\* network names given to getSupportedTokens: the two it knows and others
Networks ==
  {MainnetNetwork, TestnetNetwork,
   "", "mainnet", "Testnet", "Kovan", "Sepolia", "Devnet", "Unknown"}

\* addresses looked up: every address of the tables and one of none
Addresses ==
  {OP, DAI, MainnetSNX, MainnetUSDT, MainnetWBTC, MainnetUSDC,
   TestnetSNX, TestnetUSDT, TestnetWBTC, TestnetUSDC,
   "0x0000000000000000000000000000000000000000"}

\* the state of the run before runRunCmd is called
RunInit ==
  /\ pc = "LoadConfiguration"
  /\ cfgMode = Unset
  /\ cfgRemoteGeth = FALSE
  /\ sigCount = 0
  /\ watcher = "none"
  /\ SignalReceived = FALSE
  /\ rootDone = FALSE
  /\ gCreated = FALSE
  /\ ctxDone = FALSE
  /\ ctxVar = "none"
  /\ groupCancel = FALSE
  /\ task = [t \in Tasks |-> "none"]
  /\ ret = [t \in Tasks |-> Unset]
  /\ gErr = Nil
  /\ joinErr = Unset
  /\ sigRead = Unset
  /\ flagReads = 0
  /\ outcome = Unset
  /\ client = "nil"
  /\ closeCount = 0
  /\ inShutdown = FALSE
  /\ listener = "none"
  /\ tracked = FALSE
  /\ conn = [c \in Conns |-> "none"]
  /\ retAfterDone = [t \in Tasks |-> FALSE]
  /\ errNoSig = FALSE
  /\ sigAtRunning = FALSE
  /\ cleanSignal = FALSE
  /\ sigEarly = FALSE
  /\ firstErr = Nil

\* no token table has been asked for
NoTable ==
  /\ built = FALSE
  /\ tokens = NoTokens
  /\ lookupAddr = Unset
  /\ lookupRes = FALSE

Init ==
  /\ RunInit
  /\ network = Unset
  /\ NoTable

\* g.Wait has returned to runRunCmd
Joined == joinErr # Unset

\* ------------------------------------------------------------ contexts
\* ctx.Done() is closed for the context c
Done(c) ==
  IF c = "root" THEN rootDone ELSE IF c = "group" THEN ctxDone ELSE FALSE

\* ------------------------------------------------------------ runRunCmd
\* line 55-58: configuration.LoadConfiguration
LoadConfiguration ==
  /\ pc = "LoadConfiguration"
  /\ \/ /\ pc' = "done"
        /\ outcome' = ErrConfig
        /\ UNCHANGED <<cfgMode, cfgRemoteGeth>>
     \/ /\ pc' = "NewServer"
        /\ cfgMode' \in {"Online", "Offline"}
        /\ cfgRemoteGeth' \in BOOLEAN
        /\ UNCHANGED outcome
  /\ UNCHANGED <<joinErr, sigRead, flagReads>>
  /\ UNCHANGED <<sigVars, ctxVars, grpVars, cliVars, tokVars, srvVars, histVars>>

\* line 62-72: asserter.NewServer
NewServer ==
  /\ pc = "NewServer"
  /\ \/ /\ pc' = "done"
        /\ outcome' = ErrAsserter
     \/ /\ pc' = "WithCancel"
        /\ UNCHANGED outcome
  /\ UNCHANGED <<cfgMode, cfgRemoteGeth, joinErr, sigRead, flagReads>>
  /\ UNCHANGED <<sigVars, ctxVars, grpVars, cliVars, tokVars, srvVars, histVars>>

\* line 75-77: context.WithCancel and go handleSignals
WithCancel ==
  /\ pc = "WithCancel"
  /\ pc' = "WithContext"
  /\ watcher' = "waiting"
  /\ ctxVar' = "root"
  /\ UNCHANGED <<rootDone, gCreated, ctxDone, groupCancel>>
  /\ UNCHANGED <<cfgMode, cfgRemoteGeth, joinErr, sigRead, flagReads, outcome>>
  /\ UNCHANGED <<sigCount, SignalReceived>>
  /\ UNCHANGED <<grpVars, cliVars, tokVars, srvVars, histVars>>

\* a variant of line 79 that drops the derived context (g, _ := ...)
GroupContext_Dropped == "root"

\* line 79: g, ctx := errgroup.WithContext(ctx) rebinds ctx to the derived
\* context, which every closure below reads
GroupContext == "group"

\* line 79: errgroup.WithContext; a child of a cancelled context is cancelled
WithContext ==
  /\ pc = "WithContext"
  /\ pc' = "StartGeth"
  /\ gCreated' = TRUE
  /\ ctxDone' = rootDone
  /\ ctxVar' = GroupContext
  /\ UNCHANGED <<rootDone, groupCancel>>
  /\ UNCHANGED <<cfgMode, cfgRemoteGeth, joinErr, sigRead, flagReads, outcome>>
  /\ UNCHANGED <<sigVars, grpVars, cliVars, tokVars, srvVars, histVars>>

\* a variant of line 83 that ignores cfg.RemoteGeth
LaunchesGeth_AlwaysOnline == cfgMode = "Online"

\* line 82-87: the embedded node is launched only online and not RemoteGeth
LaunchesGeth == cfgMode = "Online" /\ ~cfgRemoteGeth

\* line 82-87: g.Go(StartGeth) starts the goroutine at once
StartGeth ==
  /\ pc = "StartGeth"
  /\ pc' = IF cfgMode = "Online" THEN "NewClient" ELSE "GoServe"
  /\ task' = IF LaunchesGeth THEN [task EXCEPT !["geth"] = "running"] ELSE task
  /\ UNCHANGED <<ret, gErr>>
  /\ UNCHANGED <<cfgMode, cfgRemoteGeth, joinErr, sigRead, flagReads, outcome>>
  /\ UNCHANGED <<sigVars, ctxVars, cliVars, tokVars, srvVars, histVars>>

\* line 96-101: optimism.NewClient, return on error, defer client.Close()
NewClient ==
  /\ pc = "NewClient"
  /\ \/ /\ pc' = "done"
        /\ outcome' = ErrClient
        /\ UNCHANGED client
     \/ /\ pc' = "GoServe"
        /\ client' = "open"
        /\ UNCHANGED outcome
  /\ UNCHANGED closeCount
  /\ UNCHANGED <<cfgMode, cfgRemoteGeth, joinErr, sigRead, flagReads>>
  /\ UNCHANGED <<sigVars, ctxVars, grpVars, srvVars, histVars, tokVars>>

\* line 116-119: g.Go(server.ListenAndServe)
GoServe ==
  /\ pc = "GoServe"
  /\ pc' = "GoShutdown"
  /\ task' = [task EXCEPT !["serve"] = "start"]
  /\ UNCHANGED <<ret, gErr>>
  /\ UNCHANGED <<cfgMode, cfgRemoteGeth, joinErr, sigRead, flagReads, outcome>>
  /\ UNCHANGED <<sigVars, ctxVars, cliVars, tokVars, srvVars, histVars>>

\* line 121-128: g.Go of the shutdown task
GoShutdown ==
  /\ pc = "GoShutdown"
  /\ pc' = "Wait"
  /\ task' = [task EXCEPT !["shutdown"] = "wait"]
  /\ UNCHANGED <<ret, gErr>>
  /\ UNCHANGED <<cfgMode, cfgRemoteGeth, joinErr, sigRead, flagReads, outcome>>
  /\ UNCHANGED <<sigVars, ctxVars, cliVars, tokVars, srvVars, histVars>>

\* a variant of the join condition that gives up waiting once an error is in
AllReturned_FirstError ==
  \/ gErr # Nil
  \/ \A t \in Tasks : task[t] \in {"none", "done"}

\* line 130: g.Wait blocks until the wait group of all g.Go calls is empty
AllReturned == \A t \in Tasks : task[t] \in {"none", "done"}

\* line 130: err = g.Wait(); Wait cancels the group context and yields g.err
Wait ==
  /\ pc = "Wait"
  /\ AllReturned
  /\ pc' = "ReadSignal"
  /\ joinErr' = gErr
  /\ ctxDone' = TRUE
  /\ groupCancel' = TRUE
  /\ UNCHANGED <<rootDone, gCreated, ctxVar>>
  /\ UNCHANGED <<cfgMode, cfgRemoteGeth, sigRead, flagReads, outcome>>
  /\ UNCHANGED <<sigVars, grpVars, cliVars, tokVars, srvVars, histVars>>

\* a variant of the read that clears the flag it has consumed
ReadSignal_Clears ==
  /\ pc = "ReadSignal"
  /\ pc' = "Return"
  /\ sigRead' = IF SignalReceived THEN "true" ELSE "false"
  /\ SignalReceived' = FALSE
  /\ flagReads' = flagReads + 1
  /\ UNCHANGED <<cfgMode, cfgRemoteGeth, joinErr, outcome>>
  /\ UNCHANGED <<sigCount, watcher>>
  /\ UNCHANGED <<ctxVars, grpVars, cliVars, tokVars, srvVars, histVars>>

\* line 131: the read of SignalReceived
ReadSignal ==
  /\ pc = "ReadSignal"
  /\ pc' = "Return"
  /\ sigRead' = IF SignalReceived THEN "true" ELSE "false"
  /\ flagReads' = flagReads + 1
  /\ UNCHANGED <<cfgMode, cfgRemoteGeth, joinErr, outcome>>
  /\ UNCHANGED <<sigVars, ctxVars, grpVars, cliVars, tokVars, srvVars, histVars>>

\* a variant of the outcome that lets a task error win over the signal
FinalOutcome_ErrorFirst(sig, err) ==
  IF err # Nil THEN err ELSE IF sig THEN Halted ELSE err

\* line 131-135: halted when the flag was set, otherwise the join error
FinalOutcome(sig, err) == IF sig THEN Halted ELSE err

\* line 131-135: the return value of runRunCmd
Return ==
  /\ pc = "Return"
  /\ pc' = "Deferred"
  /\ outcome' = FinalOutcome(sigRead = "true", joinErr)
  /\ UNCHANGED <<cfgMode, cfgRemoteGeth, joinErr, sigRead, flagReads>>
  /\ UNCHANGED <<sigVars, ctxVars, grpVars, cliVars, tokVars, srvVars, histVars>>

\* a variant of the deferred call that is skipped on the halted path
RunsDeferredClose_NotOnHalt == client = "open" /\ sigRead # "true"

\* line 101: the deferred call exists only when NewClient succeeded
RunsDeferredClose == client = "open"

\* line 101: defer client.Close() runs when runRunCmd returns
Deferred ==
  /\ pc = "Deferred"
  /\ pc' = "done"
  /\ IF RunsDeferredClose
       THEN client' = "closed" /\ closeCount' = closeCount + 1
       ELSE UNCHANGED <<client, closeCount>>
  /\ UNCHANGED <<cfgMode, cfgRemoteGeth, joinErr, sigRead, flagReads, outcome>>
  /\ UNCHANGED <<sigVars, ctxVars, grpVars, srvVars, histVars, tokVars>>

\* ------------------------------------------------------- signal watcher
\* the operating system delivers a termination signal to the process; the
\* notification channel holds it until the watcher goroutine reads it
Signal ==
  /\ watcher # "none"
  /\ pc # "done"
  /\ sigCount < MaxSignals
  /\ sigCount' = sigCount + 1
  /\ UNCHANGED <<watcher, SignalReceived>>
  /\ UNCHANGED <<supVars, ctxVars, grpVars, cliVars, tokVars, srvVars, histVars>>

\* handleSignals: on receipt of the first signal the flag is set
WatcherReceive ==
  /\ watcher = "waiting"
  /\ sigCount > 0
  /\ watcher' = "received"
  /\ SignalReceived' = TRUE
  /\ sigAtRunning' = (pc = "Wait")
  /\ cleanSignal' = \A t \in Tasks : ret[t] \in {Unset, Nil}
  /\ sigEarly' = (pc \in {"WithContext", "StartGeth", "NewClient", "GoServe", "GoShutdown"})
  /\ UNCHANGED <<sigCount, retAfterDone, errNoSig, firstErr>>
  /\ UNCHANGED <<supVars, ctxVars, grpVars, cliVars, tokVars, srvVars>>

\* handleSignals: the supplied cancel callbacks are invoked once; cancelling
\* the root context cancels the group context derived from it
WatcherCancel ==
  /\ watcher = "received"
  /\ watcher' = "exited"
  /\ rootDone' = TRUE
  /\ ctxDone' = (ctxDone \/ gCreated)
  /\ UNCHANGED <<gCreated, ctxVar, groupCancel>>
  /\ UNCHANGED <<sigCount, SignalReceived>>
  /\ UNCHANGED <<supVars, grpVars, cliVars, tokVars, srvVars, histVars>>

\* ------------------------------------------------------------- errgroup
\* the task function of t returns e to the wrapper of g.Go
Returns(t, e) ==
  /\ task' = [task EXCEPT ![t] = "returned"]
  /\ ret' = [ret EXCEPT ![t] = e]
  /\ retAfterDone' = [retAfterDone EXCEPT ![t] = ctxDone]
  /\ errNoSig' = (errNoSig \/ (e # Nil /\ sigCount = 0))
  /\ UNCHANGED <<gErr, sigAtRunning, cleanSignal, sigEarly, firstErr>>

\* a variant of g.Go that keeps the last error instead of the first
RecordsError_Last(t) == ret[t] # Nil

\* a variant of g.Go that treats every return as a failure
RecordsError_Any(t) == gErr = Nil

\* errgroup g.Go: errOnce lets only the first non-nil error through
RecordsError(t) == ret[t] # Nil /\ gErr = Nil

\* errgroup g.Go: after f returns, the first error is stored and the group
\* context cancelled, then the wait group is released
TaskExit(t) ==
  /\ task[t] = "returned"
  /\ task' = [task EXCEPT ![t] = "done"]
  /\ IF RecordsError(t)
       THEN gErr' = ret[t] /\ ctxDone' = TRUE /\ groupCancel' = TRUE
       ELSE UNCHANGED <<gErr, ctxDone, groupCancel>>
  /\ firstErr' = IF firstErr = Nil THEN ret[t] ELSE firstErr
  /\ UNCHANGED <<ret, rootDone, gCreated, ctxVar>>
  /\ UNCHANGED <<retAfterDone, errNoSig, sigAtRunning, cleanSignal, sigEarly>>
  /\ UNCHANGED <<supVars, sigVars, cliVars, tokVars, srvVars>>

\* ------------------------------------------------------ embedded node
\* StartGeth: the child process exits on its own with an error
GethFail ==
  /\ task["geth"] = "running"
  /\ Returns("geth", ErrGeth)
  /\ UNCHANGED <<supVars, sigVars, ctxVars, cliVars, tokVars, srvVars>>

\* StartGeth: the task observes the cancelled context and returns
GethObserveCancel ==
  /\ task["geth"] = "running"
  /\ Done(ctxVar)
  /\ \E e \in {Nil, ErrGeth} : Returns("geth", e)
  /\ UNCHANGED <<supVars, sigVars, ctxVars, cliVars, tokVars, srvVars>>

\* ---------------------------------------------------------- serve task
\* a variant of the serve task that filters http.ErrServerClosed
ClosedResult_Nil == Nil

\* line 118: the error of ListenAndServe is returned as it is, also when the
\* server was closed by Shutdown
ClosedResult == ErrServerClosed

\* a variant of ListenAndServe without the check for a shutdown in progress
ShuttingDown_Unchecked == FALSE

\* line 118: ListenAndServe and Serve ask whether Shutdown was called
ShuttingDown == inShutdown

\* line 118: ListenAndServe returns ErrServerClosed when already shutting down
ServeStart ==
  /\ task["serve"] = "start"
  /\ IF ShuttingDown
       THEN Returns("serve", ClosedResult)
       ELSE /\ task' = [task EXCEPT !["serve"] = "listen"]
            /\ UNCHANGED <<ret, gErr, histVars>>
  /\ UNCHANGED <<supVars, sigVars, ctxVars, cliVars, tokVars, srvVars>>

\* line 118: ListenAndServe binds the address, or fails to
ServeListen ==
  /\ task["serve"] = "listen"
  /\ \/ /\ Returns("serve", ErrBind)
        /\ UNCHANGED listener
     \/ /\ task' = [task EXCEPT !["serve"] = "track"]
        /\ listener' = "open"
        /\ UNCHANGED <<ret, gErr, histVars>>
  /\ UNCHANGED <<inShutdown, tracked, conn>>
  /\ UNCHANGED <<supVars, sigVars, ctxVars, cliVars, tokVars>>

\* line 118: Serve registers the listener unless the server is shutting down,
\* in which case it closes the listener and returns ErrServerClosed
ServeTrack ==
  /\ task["serve"] = "track"
  /\ IF ShuttingDown
       THEN /\ Returns("serve", ClosedResult)
            /\ listener' = "closed"
            /\ UNCHANGED tracked
       ELSE /\ task' = [task EXCEPT !["serve"] = "accept"]
            /\ tracked' = TRUE
            /\ UNCHANGED <<ret, gErr, histVars, listener>>
  /\ UNCHANGED <<inShutdown, conn>>
  /\ UNCHANGED <<supVars, sigVars, ctxVars, cliVars, tokVars>>

\* line 118: the accept loop takes a new connection carrying a request;
\* connections are numbered in the order they are accepted
ServeAccept(c) ==
  /\ task["serve"] = "accept"
  /\ listener = "open"
  /\ conn[c] = "none"
  /\ \A d \in Conns : d < c => conn[d] # "none"
  /\ conn' = [conn EXCEPT ![c] = "active"]
  /\ UNCHANGED <<inShutdown, listener, tracked>>
  /\ UNCHANGED <<supVars, sigVars, ctxVars, grpVars, cliVars, tokVars, histVars>>

\* line 118: Accept fails with a permanent error while the server is up
ServeAcceptError ==
  /\ task["serve"] = "accept"
  /\ listener = "open"
  /\ Returns("serve", ErrAccept)
  /\ listener' = "closed"
  /\ tracked' = FALSE
  /\ UNCHANGED <<inShutdown, conn>>
  /\ UNCHANGED <<supVars, sigVars, ctxVars, cliVars, tokVars>>

\* line 118: Accept fails because Shutdown closed the listener
ServeClosed ==
  /\ task["serve"] = "accept"
  /\ listener = "closed"
  /\ Returns("serve", ClosedResult)
  /\ tracked' = FALSE
  /\ UNCHANGED <<inShutdown, listener, conn>>
  /\ UNCHANGED <<supVars, sigVars, ctxVars, cliVars, tokVars>>

\* the handler of a request finishes; keep-alive is off while shutting down
HandlerFinish(c) ==
  /\ conn[c] = "active"
  /\ conn' = [conn EXCEPT ![c] = IF inShutdown THEN "closed" ELSE "idle"]
  /\ UNCHANGED <<inShutdown, listener, tracked>>
  /\ UNCHANGED <<supVars, sigVars, ctxVars, grpVars, cliVars, tokVars, histVars>>

\* the peer sends the next request on a kept-alive connection
NextRequest(c) ==
  /\ conn[c] = "idle"
  /\ conn' = [conn EXCEPT ![c] = "active"]
  /\ UNCHANGED <<inShutdown, listener, tracked>>
  /\ UNCHANGED <<supVars, sigVars, ctxVars, grpVars, cliVars, tokVars, histVars>>

\* an idle connection ends (peer close or idleTimeout, line 43 and 113)
IdleClose(c) ==
  /\ conn[c] = "idle"
  /\ conn' = [conn EXCEPT ![c] = "closed"]
  /\ UNCHANGED <<inShutdown, listener, tracked>>
  /\ UNCHANGED <<supVars, sigVars, ctxVars, grpVars, cliVars, tokVars, histVars>>

\* ------------------------------------------------------- shutdown task
\* a variant of the shutdown task that does not wait for the context
ScopeObserved_NoWait == TRUE

\* line 125: <-ctx.Done()
ScopeObserved == Done(ctxVar)

\* line 125: the shutdown task unblocks once the group context is cancelled
ShutdownWake ==
  /\ task["shutdown"] = "wait"
  /\ ScopeObserved
  /\ task' = [task EXCEPT !["shutdown"] = "shutdown"]
  /\ UNCHANGED <<ret, gErr>>
  /\ UNCHANGED <<supVars, sigVars, ctxVars, cliVars, tokVars, srvVars, histVars>>

\* a variant of Shutdown that leaves the listener open
ListenerAfterShutdown_Open == listener

\* line 127: Shutdown closes the listeners registered with the server
ListenerAfterShutdown == IF tracked THEN "closed" ELSE listener

\* line 127: server.Shutdown marks the server as shutting down and closes
\* its listeners
ShutdownClose ==
  /\ task["shutdown"] = "shutdown"
  /\ task' = [task EXCEPT !["shutdown"] = "poll"]
  /\ inShutdown' = TRUE
  /\ listener' = ListenerAfterShutdown
  /\ UNCHANGED <<tracked, conn>>
  /\ UNCHANGED <<ret, gErr>>
  /\ UNCHANGED <<supVars, sigVars, ctxVars, cliVars, tokVars, histVars>>

\* line 127: Shutdown closes the idle connections and returns nil when no
\* connection is left in use
ShutdownPoll ==
  /\ task["shutdown"] = "poll"
  /\ conn' = [c \in Conns |-> IF conn[c] = "idle" THEN "closed" ELSE conn[c]]
  /\ IF \A c \in Conns : conn[c] # "active"
       THEN Returns("shutdown", Nil)
       ELSE /\ task' = [task EXCEPT !["shutdown"] = "select"]
            /\ UNCHANGED <<ret, gErr, histVars>>
  /\ UNCHANGED <<inShutdown, listener, tracked>>
  /\ UNCHANGED <<supVars, sigVars, ctxVars, cliVars, tokVars>>

\* line 127: Shutdown is given the cancelled group context, so its select
\* finds ctx.Done() ready and returns ctx.Err()
ShutdownCtxDone ==
  /\ task["shutdown"] = "select"
  /\ Done(ctxVar)
  /\ Returns("shutdown", Canceled)
  /\ UNCHANGED <<supVars, sigVars, ctxVars, cliVars, tokVars, srvVars>>

\* line 127: the poll timer of Shutdown fires and the loop polls again
ShutdownTimer ==
  /\ task["shutdown"] = "select"
  /\ task' = [task EXCEPT !["shutdown"] = "poll"]
  /\ UNCHANGED <<ret, gErr>>
  /\ UNCHANGED <<supVars, sigVars, ctxVars, cliVars, tokVars, srvVars, histVars>>

\* ---------------------------------------------------------------- system
\* the steps of runRunCmd itself
Supervisor ==
  \/ LoadConfiguration \/ NewServer \/ WithCancel \/ WithContext
  \/ StartGeth \/ NewClient \/ GoServe \/ GoShutdown
  \/ Wait \/ ReadSignal \/ Return \/ Deferred

Next ==
  \/ LoadConfiguration
  \/ NewServer
  \/ WithCancel
  \/ WithContext
  \/ StartGeth
  \/ NewClient
  \/ GoServe
  \/ GoShutdown
  \/ Wait
  \/ ReadSignal
  \/ Return
  \/ Deferred
  \/ Signal
  \/ WatcherReceive
  \/ WatcherCancel
  \/ \E t \in Tasks : TaskExit(t)
  \/ GethFail
  \/ GethObserveCancel
  \/ ServeStart
  \/ ServeListen
  \/ ServeTrack
  \/ \E c \in Conns : ServeAccept(c)
  \/ ServeAcceptError
  \/ ServeClosed
  \/ \E c \in Conns : HandlerFinish(c)
  \/ \E c \in Conns : NextRequest(c)
  \/ \E c \in Conns : IdleClose(c)
  \/ ShutdownWake
  \/ ShutdownClose
  \/ ShutdownPoll
  \/ ShutdownCtxDone
  \/ ShutdownTimer

Spec == Init /\ [][Next]_vars

\* --------------------------------------------- getSupportedTokens alone
\* line 94: the table is built for the configured network name
BuildTokens ==
  /\ ~built
  /\ built' = TRUE
  /\ tokens' = getSupportedTokens(network)
  /\ UNCHANGED <<network, lookupAddr, lookupRes>>
  /\ UNCHANGED <<supVars, sigVars, ctxVars, grpVars, cliVars, srvVars, histVars>>

\* the client asks the table whether an address is supported; a key that is
\* not in a Go map reads as false
LookupToken(a) ==
  /\ built
  /\ lookupAddr = Unset
  /\ lookupAddr' = a
  /\ lookupRes' = (a \in DOMAIN tokens /\ tokens[a])
  /\ UNCHANGED <<network, built, tokens>>
  /\ UNCHANGED <<supVars, sigVars, ctxVars, grpVars, cliVars, srvVars, histVars>>

TokenInit ==
  /\ RunInit
  /\ network \in Networks
  /\ NoTable

TokenNext ==
  \/ BuildTokens
  \/ \E a \in Addresses : LookupToken(a)

TokenSpec == TokenInit /\ [][TokenNext]_vars

\* the goroutines and runRunCmd are scheduled fairly; the select of Shutdown
\* picks among its ready cases at random, so the ready ctx.Done() case is
\* eventually taken
Fairness ==
  /\ WF_vars(Supervisor)
  /\ WF_vars(WatcherReceive)
  /\ WF_vars(WatcherCancel)
  /\ \A t \in Tasks : WF_vars(TaskExit(t))
  /\ WF_vars(GethObserveCancel)
  /\ WF_vars(ServeStart)
  /\ WF_vars(ServeListen)
  /\ WF_vars(ServeTrack)
  /\ WF_vars(ServeClosed)
  /\ WF_vars(ShutdownWake)
  /\ WF_vars(ShutdownClose)
  /\ WF_vars(ShutdownPoll)
  /\ SF_vars(ShutdownCtxDone)

FairSpec == Spec /\ Fairness

TypeOK ==
  /\ pc \in {"LoadConfiguration", "NewServer", "WithCancel", "WithContext",
             "StartGeth", "NewClient", "GoServe", "GoShutdown", "Wait",
             "ReadSignal", "Return", "Deferred", "done"}
  /\ sigCount \in 0..MaxSignals
  /\ watcher \in {"none", "waiting", "received", "exited"}
  /\ closeCount \in 0..1
  /\ flagReads \in 0..1

\* ---------------------------------------------------------------- claims
\* the tasks whose function returned a non-nil error
Failed == {t \in Tasks : ret[t] \notin {Unset, Nil}}

\* runRunCmd returned one of the construction errors
Aborted == outcome \in {ErrConfig, ErrAsserter, ErrClient}

\* C1: once a task has returned a non-nil error while no signal had arrived,
\* the group context gets cancelled, every registered task returns and g.Wait
\* returns
C1_Claim ==
  errNoSig ~> (ctxDone /\ (\A t \in Tasks : task[t] \in {"none", "done"}) /\ Joined)

\* C2: a signal received by the watcher while runRunCmd is blocked in g.Wait
\* leads to the context being cancelled, the server shut down, the serve task returned,
\* g.Wait returned and runRunCmd returning the halted error
C2_SignalHalts ==
  sigAtRunning ~> (/\ pc = "done"
                   /\ outcome = Halted
                   /\ rootDone /\ ctxDone
                   /\ inShutdown
                   /\ task["serve"] = "done"
                   /\ task["shutdown"] = "done"
                   /\ Joined)

C2_Witness ==
  /\ sigAtRunning
  /\ pc = "done"
  /\ outcome = Halted
  /\ task["geth"] = "done"

\* C3: when g.Wait has returned, every task started with g.Go has returned and
\* left the group, also when a task failed and the context was cancelled
C3_JoinAfterAll ==
  Joined => \A t \in Tasks : task[t] \in {"none", "done"}

C3_Witness ==
  /\ Joined
  /\ gErr = ErrGeth
  /\ \A t \in Tasks : task[t] = "done"

\* C4: the result of runRunCmd past construction is computed after g.Wait
\* returned, from one read of SignalReceived: halted when the flag was set,
\* whatever g.Wait returned, and the error of g.Wait otherwise
C4_FinalOutcome ==
  /\ flagReads <= 1
  /\ flagReads = 1 => Joined
  /\ (outcome # Unset /\ ~Aborted) =>
        /\ Joined
        /\ flagReads = 1
        /\ sigRead = "true" => outcome = Halted
        /\ sigRead = "false" => outcome = joinErr

C4_Witness ==
  /\ pc = "done"
  /\ outcome = Halted
  /\ joinErr = ErrGeth

\* C5: when exactly one task returned an error, g.Wait returns that error, the
\* group context is cancelled and every other task returned with the context
\* already cancelled
C5_SingleError ==
  (Joined /\ Cardinality(Failed) = 1) =>
     \A t \in Failed :
        /\ joinErr = ret[t]
        /\ ctxDone
        /\ \A u \in Tasks \ {t} : task[u] = "done" => retAfterDone[u]

C5_Witness ==
  /\ Joined
  /\ Cardinality(Failed) = 1
  /\ \A t \in Tasks : task[t] = "done"

\* C6: offline, with a signal received before any task failed and no task
\* failing on its own, g.Wait returns nil, SignalReceived is true and
\* runRunCmd returns the halted error
C6_Claim ==
  (/\ cfgMode = "Offline"
   /\ Joined
   /\ cleanSignal
   /\ \A t \in Tasks : ret[t] \notin {ErrBind, ErrAccept}) =>
     /\ joinErr = Nil
     /\ SignalReceived
     /\ pc = "done" => outcome = Halted

\* C7: the root context has no deadline, so the shutdown task has not returned
\* while a request is still being handled
C7_Claim ==
  task["shutdown"] \in {"returned", "done"} =>
     \A c \in Conns : conn[c] # "active"

\* C8: a constructed client is closed once, after g.Wait returned, on every
\* way out of runRunCmd; a client never constructed is never closed
C8_ClientClosedOnce ==
  /\ closeCount <= 1
  /\ closeCount = 1 => (Joined /\ client = "closed")
  /\ client = "nil" => closeCount = 0
  /\ (pc = "done" /\ client # "nil") => (closeCount = 1 /\ client = "closed")

C8_Witness ==
  /\ pc = "done"
  /\ outcome = Halted
  /\ closeCount = 1

\* C9: when runRunCmd returns a construction error, no task has been started
C9_Claim ==
  Aborted => \A t \in Tasks : task[t] = "none"

\* C10: SignalReceived is false until the watcher has taken a signal, true
\* from then on, and never goes back to false
C10_SignalFlag ==
  /\ [](SignalReceived <=> watcher \in {"received", "exited"})
  /\ [](SignalReceived => sigCount > 0)
  /\ [][SignalReceived => SignalReceived']_vars

C10_Witness ==
  /\ SignalReceived
  /\ pc = "done"
  /\ joinErr = ErrGeth

\* C1 apart from the runs that NewClient aborts
C1_UnlessAborted ==
  errNoSig ~> (Aborted \/ (ctxDone /\ (\A t \in Tasks : task[t] \in {"none", "done"}) /\ Joined))

C12_Stable ==
  /\ ctxDone'
  /\ rootDone => rootDone'
  /\ gErr # Nil => gErr' = gErr
  /\ Joined => joinErr' = joinErr
  /\ watcher = "exited" => watcher' = "exited"
  /\ closeCount' <= 1

\* a further signal, after the first, changes nothing but the count
C12_SecondSignal ==
  (sigCount >= 1 /\ sigCount' > sigCount) =>
     UNCHANGED <<SignalReceived, watcher, rootDone, ctxDone, gErr, joinErr,
                 closeCount, outcome>>

\* C12 as claimed: once the context is cancelled, a later trigger or signal
\* leaves the context cancelled, the join error, the watcher and the client
\* as they are, and SignalReceived keeps its value
C12_Original ==
  [][/\ ctxDone => (C12_Stable /\ SignalReceived' = SignalReceived)
     /\ C12_SecondSignal]_vars

\* C12 amended: as claimed, except that SignalReceived may still go from false
\* to true when the first signal comes after a task error
C12_Idempotent ==
  [][/\ ctxDone => (C12_Stable /\ (SignalReceived => SignalReceived'))
     /\ C12_SecondSignal]_vars

C12_Witness ==
  /\ pc = "done"
  /\ sigCount = 2
  /\ watcher = "exited"
  /\ gErr = ErrGeth
  /\ Cardinality(Failed) >= 2
  /\ closeCount = 1

\* C14: the serve task returns an error only for a failed bind or accept; when
\* Shutdown closed its listener it returns nil and gives the group no error
C14_Claim ==
  /\ ret["serve"] \in {Unset, Nil, ErrBind, ErrAccept}
  /\ gErr # ErrServerClosed

\* C15: without a signal, g.Wait yields the error that first reached the
\* group, a failure of the node or of the server and never an error of the
\* teardown, and runRunCmd returns it
C15_FirstError ==
  (Joined /\ ~SignalReceived) =>
     /\ joinErr = firstErr
     /\ joinErr \in {ErrGeth, ErrBind, ErrAccept}
     /\ \A t \in Tasks : ret[t] \in {ErrServerClosed, Canceled} => joinErr # ret[t]
     /\ pc = "done" => outcome = joinErr

C15_Witness ==
  /\ pc = "done"
  /\ outcome = ErrGeth
  /\ ret["serve"] = ErrServerClosed
  /\ ret["shutdown"] = Canceled

\* runRunCmd is past the if statement of line 82-102
PastStarting ==
  pc \in {"GoServe", "GoShutdown", "Wait", "ReadSignal", "Return", "Deferred"}
    \/ (pc = "done" /\ Joined)

\* C16 as claimed: unless online and not RemoteGeth, the embedded node is not
\* started and the client is not constructed
C16_Original ==
  ~(cfgMode = "Online" /\ ~cfgRemoteGeth) =>
     (task["geth"] = "none" /\ client = "nil")

\* C16 amended: the embedded node is started exactly when online and not
\* RemoteGeth; the client is constructed exactly when online, RemoteGeth or not
C16_Starting ==
  /\ task["geth"] # "none" => (cfgMode = "Online" /\ ~cfgRemoteGeth)
  /\ client # "nil" => cfgMode = "Online"
  /\ PastStarting =>
        /\ task["geth"] # "none" <=> (cfgMode = "Online" /\ ~cfgRemoteGeth)
        /\ client # "nil" <=> cfgMode = "Online"

C16_Witness ==
  /\ pc = "Wait"
  /\ cfgMode = "Online"
  /\ cfgRemoteGeth
  /\ client = "open"
  /\ task["geth"] = "none"

\* C17: once the group exists, the tasks read the one derived context, and a
\* cancellation by the signal watcher or by a task error is visible in it
C17_OneScope ==
  /\ gCreated => ctxVar = "group"
  /\ (gCreated /\ rootDone) => Done(ctxVar)
  /\ gErr # Nil => Done(ctxVar)
  /\ \A t \in {"geth", "shutdown"} :
        (task[t] \in {"returned", "done"} /\ retAfterDone[t]) => Done(ctxVar)

C17_Witness ==
  /\ gErr = ErrBind
  /\ ~rootDone
  /\ task["geth"] = "done"
  /\ task["shutdown"] = "done"
  /\ retAfterDone["geth"]
  /\ retAfterDone["shutdown"]

\* C18: once the client is closed, no request is being handled
C18_Claim ==
  closeCount >= 1 => \A c \in Conns : conn[c] # "active"

\* the server does not accept connections once the shutdown task has returned
C19_NoServeAfterShutdown ==
  task["shutdown"] \in {"returned", "done"} =>
     ~(task["serve"] = "accept" /\ listener = "open")

\* C19 as claimed: after a signal taken before runRunCmd reached g.Wait, a
\* finished run has joined its tasks and returns the halted error
C19_Original ==
  /\ C19_NoServeAfterShutdown
  /\ (pc = "done" /\ sigEarly) =>
        (Joined /\ task["serve"] = "done" /\ outcome = Halted)

\* C19 amended: after a signal taken before runRunCmd reached g.Wait, either
\* NewClient fails and runRunCmd returns that error, or the serve task
\* returns, g.Wait returns and runRunCmd returns the halted error; the server
\* never accepts connections after the shutdown task has returned
C19_EarlySignal ==
  /\ []C19_NoServeAfterShutdown
  /\ sigEarly ~> \/ (pc = "done" /\ outcome = ErrClient)
                 \/ /\ pc = "done"
                    /\ Joined
                    /\ task["serve"] = "done"
                    /\ task["shutdown"] = "done"
                    /\ outcome = Halted

C19_Witness ==
  /\ sigEarly
  /\ pc = "done"
  /\ outcome = Halted
  /\ listener = "none"
  /\ ret["serve"] = ErrServerClosed

\* C20: the serve task never returns nil, the shutdown task returns only with
\* the context cancelled, and a run that started the server never returns nil
C20_NeverNil ==
  /\ ret["serve"] # Nil
  /\ task["shutdown"] \in {"returned", "done"} => retAfterDone["shutdown"]
  /\ (pc = "done" /\ task["serve"] # "none") => outcome \notin {Nil, Unset}

C20_Witness ==
  /\ pc = "done"
  /\ sigRead = "false"
  /\ outcome = ErrAccept
  /\ ret["shutdown"] = Nil

\* C13: for the mainnet name the table has exactly 6 addresses, all mapped
\* to true, the OP address among them; for a name that is neither the mainnet
\* nor the testnet name it has exactly the OP address, mapped to true
C13_TokenTable ==
  built =>
     /\ network = MainnetNetwork =>
           /\ Cardinality(DOMAIN tokens) = 6
           /\ OP \in DOMAIN tokens
           /\ \A a \in DOMAIN tokens : tokens[a] = TRUE
     /\ network \notin {MainnetNetwork, TestnetNetwork} =>
           /\ DOMAIN tokens = {OP}
           /\ tokens[OP] = TRUE
     /\ lookupAddr # Unset => (lookupRes <=> lookupAddr \in DOMAIN tokens)

C13_Witness ==
  /\ built
  /\ network = MainnetNetwork
  /\ lookupAddr = OP
  /\ lookupRes

====
